---- MODULE Spec2Model ----
(***************************************************************************)
(* Ask Maps: the response-to-UI reconciliation pipeline of App            *)
(* (handleSend, parseRouteData, executeFunctionCall, the marker           *)
(* synthesis, the session reset and the marker style edit), modelled from  *)
(* the Leaflet version of the component.                                   *)
(*                                                                         *)
(* Text is a sequence of tokens.  A token is one character, or one of the  *)
(* atomic literals the code searches for (the display directive, the       *)
(* duration / distance labels): an atomic literal is neither a word        *)
(* character, nor a digit, nor whitespace, and is matched by '.'.          *)
(***************************************************************************)
EXTENDS Integers, Sequences, FiniteSets, TLC

VARIABLES
    messages,       \* useState<Message[]>: the transcript
    input,          \* useState(''): the input field
    isChatOpen,     \* useState(false)
    isProcessing,   \* useState(false)
    showTraffic,    \* useState(false)
    activeLayer,    \* useState<MapLayer>('standard')
    activeMarkers,  \* useState<MapMarker[]>([])
    zoom,           \* useState(13)
    mapCenter,      \* useState<Location>
    isVoiceMode,    \* useState(false)
    view,           \* the state values captured by the closures of the last render
    calls,          \* askMaps calls awaiting their result, each with its closure
    now,            \* the last reading of Date.now()
    nSubmits,       \* accepted submits so far (bounded by MaxTurns)
    nEdits,         \* style edits so far (bounded by MaxEdits)
    p_pc,           \* function harness: "off" | "ready" | "parsed" | "done"
    p_text,         \* function harness: the text given to parseRouteData
    p_links,        \* function harness: the links of the response
    p_route,        \* function harness: what parseRouteData returned
    p_markers,      \* function harness: the markers synthesized from the links
    e_pc,           \* dispatch harness: "off" | "run" | "threw" | "done"
    e_calls,        \* dispatch harness: the function calls to dispatch
    e_k,            \* dispatch harness: the index of the next call
    v_att,          \* the calls of startVoiceMode so far, each with its locals
    v_ref,          \* sessionPromiseRef.current: 0 (null) or an index of v_att
    v_chunks,       \* the audio chunks received so far
    v_clock,        \* outputCtx.currentTime
    v_frames,       \* the invocations of sendRealtimeInput so far
    v_deferred,     \* the sends waiting for the promise of connect
    v_responses,    \* the invocations of sendToolResponse so far
    isDrivingMode,  \* useState(false)
    nPresses        \* presses of the map buttons so far (bounded by MaxPresses)

vars == <<messages, input, isChatOpen, isProcessing, showTraffic, activeLayer,
          activeMarkers, zoom, mapCenter, isVoiceMode, view, calls, now,
          nSubmits, nEdits, p_pc, p_text, p_links, p_route, p_markers,
          e_pc, e_calls, e_k, v_att, v_ref, v_chunks, v_clock, v_frames,
          v_deferred, v_responses, isDrivingMode, nPresses>>

appVars == <<messages, input, isChatOpen, isProcessing, showTraffic, activeLayer,
             activeMarkers, zoom, mapCenter, isVoiceMode, view, calls, now,
             nSubmits, nEdits>>

parseVars == <<p_pc, p_text, p_links, p_route, p_markers>>

execVars == <<e_pc, e_calls, e_k>>

voiceVars == <<v_att, v_ref, v_chunks, v_clock, v_frames, v_deferred>>

toolVars == <<v_responses, isDrivingMode, nPresses>>

----------------------------------------------------------------------------
(* Bounds of the model.                                                    *)

MaxTurns == 2    \* accepted submits of one run
MaxEdits == 1    \* style edits of one run
MaxFrags == 4    \* text fragments of a text given to the function harness
MaxLinks == 2    \* links given to the function harness
MaxCalls == 2    \* function calls given to the dispatch harness
MaxSessions == 2 \* calls of startVoiceMode of one run
MaxChunks == 2   \* audio chunks received in one run
MaxTime == 2     \* ticks of the output clock of one run
MaxFrames == 1   \* captured frames of one run
MaxResponses == 2 \* tool responses of one run
MaxPresses == 2  \* presses of the zoom, layer and driving mode buttons of one run

----------------------------------------------------------------------------
(* Optional values: undefined, or a value.                                 *)

Undefined == [some |-> FALSE, val |-> <<>>]
Some(v) == [some |-> TRUE, val |-> v]
NoNumber == [some |-> FALSE, val |-> 0]

----------------------------------------------------------------------------
(* Character classes of the regular expressions.                           *)

Digits == {"0", "1", "2", "3", "4", "5", "6", "7", "8", "9"}
Letters ==
    {"a", "b", "c", "d", "e", "f", "g", "h", "i", "j", "k", "l", "m", "n", "o", "p",
     "q", "r", "s", "t", "u", "v", "w", "x", "y", "z", "A", "B", "C", "D", "E", "F",
     "G", "H", "I", "J", "K", "L", "M", "N", "O", "P", "Q", "R", "S", "T", "U", "V",
     "W", "X", "Y", "Z"}
DIRECTIVE == "[ACTION: SHOW_MAP]"
DurationLabels == {"Total time:", "Duration:", "Estimated time:", "total time:"}
DistanceLabels == {"Total distance:", "Distance:", "total distance:"}

IsDigit(c) == c \in Digits
IsWordChar(c) == c \in Digits \cup Letters \cup {"_"}
IsSpace(c) == c \in {" ", "\n", "\t"}
IsNewline(c) == c = "\n"
IsDigitOrDot(c) == IsDigit(c) \/ c = "."
IsDurationChar(c) == IsWordChar(c) \/ IsSpace(c)
IsDistanceChar(c) == IsWordChar(c) \/ IsSpace(c) \/ c = "."
NotNewline(c) == ~IsNewline(c)

\* Whether the token c is in the character class written cls.
InClass(cls, c) ==
    CASE cls = "\\d" -> IsDigit(c)
      [] cls = "\\s" -> IsSpace(c)
      [] cls = "." -> NotNewline(c)
      [] cls = "[\\w\\s]" -> IsDurationChar(c)
      [] cls = "[\\w\\s\\.]" -> IsDistanceChar(c)

\* The last index of the longest run of tokens of the class cls that starts
\* at p (p - 1 when the run is empty): a greedy cls* from p.
RunEnd(t, p, cls) ==
    CHOOSE e \in (p - 1)..Len(t) :
        /\ \A i \in p..e : InClass(cls, t[i])
        /\ (e = Len(t) \/ ~InClass(cls, t[e + 1]))

Slice(t, a, b) == IF a > b THEN <<>> ELSE SubSeq(t, a, b)

\* String.prototype.trim
Trim(t) ==
    LET first == RunEnd(t, 1, "\\s") + 1
    IN  IF first > Len(t) THEN <<>>
        ELSE LET last == CHOOSE e \in first..Len(t) :
                             /\ ~IsSpace(t[e])
                             /\ \A i \in (e + 1)..Len(t) : IsSpace(t[i])
             IN  SubSeq(t, first, last)

----------------------------------------------------------------------------
(* parseRouteData: the labelled values.                                    *)
(*   /(?:<labels>):\s*(<class>+?)(?:\.|\n|$)/i                             *)

Terminates(t, k) == k > Len(t) \/ t[k] \in {".", "\n"}

\* The lazy group starting at s: the shortest non-empty run of class tokens
\* that is followed by '.', a newline or the end of the text.
LazyEnds(t, s, cls) ==
    {e \in s..Len(t) : (\A i \in s..e : InClass(cls, t[i])) /\ Terminates(t, e + 1)}

\* The group starts the regular expression can use after the label at i:
\* \s* is greedy and gives back one whitespace at a time.
GroupStarts(t, i, cls) ==
    {s \in (i + 1)..(RunEnd(t, i + 1, "\\s") + 1) : LazyEnds(t, s, cls) # {}}

Max(S) == CHOOSE x \in S : \A y \in S : y <= x
Min(S) == CHOOSE x \in S : \A y \in S : x <= y

LabelledValue(t, labels, cls) ==
    LET hits == {i \in 1..Len(t) : t[i] \in labels /\ GroupStarts(t, i, cls) # {}}
    IN  IF hits = {} THEN Undefined
        ELSE LET i == Min(hits)
                 s == Max(GroupStarts(t, i, cls))
                 e == Min(LazyEnds(t, s, cls))
             IN  Some(Trim(SubSeq(t, s, e)))

----------------------------------------------------------------------------
(* parseRouteData: the numbered steps.   /^\d+\.\s+(.+)$/gm                *)

AtLineStart(t, p) == p = 1 \/ IsNewline(t[p - 1])

\* A match starting at p: digits, '.', whitespace (which may run over line
\* ends), then the rest of a line.  s is where the instruction starts, e
\* where it ends.
StepMatchAt(t, p) ==
    LET d == RunEnd(t, p, "\\d")
        w == RunEnd(t, d + 2, "\\s")
        starts == {s \in (d + 3)..(w + 1) : s <= Len(t) /\ NotNewline(t[s])}
    IN  IF /\ AtLineStart(t, p)
           /\ d >= p
           /\ d + 1 <= Len(t)
           /\ t[d + 1] = "."
           /\ starts # {}
        THEN [ok |-> TRUE, s |-> Max(starts), e |-> RunEnd(t, Max(starts), ".")]
        ELSE [ok |-> FALSE, s |-> 0, e |-> 0]

\* instruction.match(/\(([\d.]+\s*\w+)\)/): the content of the leftmost
\* parenthesis that holds a number, optional whitespace and a word.
ParenContentOK(c) ==
    \E a \in 1..(Len(c) - 1) : \E b \in a..(Len(c) - 1) :
        /\ \A k \in 1..a : IsDigitOrDot(c[k])
        /\ \A k \in (a + 1)..b : IsSpace(c[k])
        /\ \A k \in (b + 1)..Len(c) : IsWordChar(c[k])

ParenMatches(ins) ==
    {<<i, j>> \in (1..Len(ins)) \X (1..Len(ins)) :
        /\ i < j
        /\ ins[i] = "("
        /\ ins[j] = ")"
        /\ ParenContentOK(Slice(ins, i + 1, j - 1))}

MakeStep(ins) ==
    IF ParenMatches(ins) = {}
    THEN [instruction |-> Trim(ins), distance |-> Undefined]
    ELSE LET i == Min({m[1] : m \in ParenMatches(ins)})
             j == Min({m[2] : m \in {n \in ParenMatches(ins) : n[1] = i}})
         IN  [instruction |-> Trim(Slice(ins, 1, i - 1) \o Slice(ins, j + 1, Len(ins))),
              distance |-> Some(SubSeq(ins, i + 1, j - 1))]

\* text.matchAll(...): the matches from p on, left to right, each search
\* resuming where the previous match ended.
RECURSIVE StepsFrom(_, _)
StepsFrom(t, p) ==
    IF p > Len(t) THEN <<>>
    ELSE LET m == StepMatchAt(t, p)
         IN  IF m.ok
             THEN <<MakeStep(SubSeq(t, m.s, m.e))>> \o StepsFrom(t, m.e + 1)
             ELSE StepsFrom(t, p + 1)

----------------------------------------------------------------------------
(* parseRouteData                                                          *)

NoRoute == [present |-> FALSE, stops |-> <<>>, steps |-> <<>>,
            duration |-> Undefined, distance |-> Undefined]

Titles(links) == [i \in 1..Len(links) |-> links[i].title]

\* parseRouteData with the link threshold one higher: two links alone no
\* longer make a route.
parseRouteDataThreeLinks(text, links) ==
    LET steps == StepsFrom(text, 1)
    IN  IF Len(steps) > 0 \/ Len(links) >= 3
        THEN [present |-> TRUE, stops |-> Titles(links), steps |-> steps,
              duration |-> LabelledValue(text, DurationLabels, "[\\w\\s]"),
              distance |-> LabelledValue(text, DistanceLabels, "[\\w\\s\\.]")]
        ELSE NoRoute

parseRouteData(text, links) ==
    LET duration == LabelledValue(text, DurationLabels, "[\\w\\s]")
        distance == LabelledValue(text, DistanceLabels, "[\\w\\s\\.]")
        steps == StepsFrom(text, 1)
    IN  IF Len(steps) > 0 \/ Len(links) >= 2
        THEN [present |-> TRUE, stops |-> Titles(links), steps |-> steps,
              duration |-> duration, distance |-> distance]
        ELSE NoRoute

----------------------------------------------------------------------------
(* Values of the application state.                                        *)

MapLayers == {"standard", "satellite", "terrain", "transit"}
MARKER_COLORS == {"bg-red-500", "bg-blue-500", "bg-green-500",
                  "bg-purple-500", "bg-yellow-500", "bg-orange-500"}
MARKER_ICONS == {"pin", "heart", "star", "coffee", "utensils"}

\* Coordinates are in units of 0.01 degree.
DefaultCenter == [lat |-> 3777, lng |-> -12242]

FailureText == <<"Something went wrong. Let's try again.">>

Link(t) == [uri |-> <<"uri-of-", t>>, title |-> t]

UserMessage(content) ==
    [role |-> "user", content |-> content, links |-> Undefined, route |-> NoRoute]
AssistantMessage(content, links, route) ==
    [role |-> "assistant", content |-> content, links |-> Some(links), route |-> route]
FailureMessage ==
    [role |-> "assistant", content |-> FailureText, links |-> Undefined, route |-> NoRoute]

\* What the closures of one render capture of the state.
Snapshot ==
    [isProcessing |-> isProcessing, messages |-> messages, input |-> input,
     mapCenter |-> mapCenter, isChatOpen |-> isChatOpen]

----------------------------------------------------------------------------
(* executeFunctionCall.  A call is {name, args}; args may be absent, and   *)
(* every field of args may be absent.  The map view is the record of the   *)
(* four state cells the executor writes.                                   *)

NoFlag == [some |-> FALSE, val |-> FALSE]
NoLayer == [some |-> FALSE, val |-> "undefined"]
NoArgs == [present |-> FALSE, zoom |-> NoNumber, latitude |-> NoNumber,
           longitude |-> NoNumber, layer |-> NoLayer, enabled |-> NoFlag]
Args(z, la, lo, ly, en) ==
    [present |-> TRUE, zoom |-> z, latitude |-> la, longitude |-> lo,
     layer |-> ly, enabled |-> en]
FunctionCall(name, args) == [name |-> name, args |-> args]

MapView == [zoom |-> zoom, mapCenter |-> mapCenter, activeLayer |-> activeLayer,
            showTraffic |-> showTraffic]

\* JavaScript truthiness of an optional number.
TruthyNumber(n) == n.some /\ n.val # 0

\* An executor that reads fc.args before it looks at the name.
ThrowsWithoutArgs(fc) == ~fc.args.present

\* Reading a property of fc.args raises a TypeError when args is absent.
Throws(fc) ==
    fc.name \in {"set_map_layer", "toggle_traffic", "update_map_view"} /\ ~fc.args.present

\* An executor whose update_map_view puts zoom back to its initial value
\* when the call gives none.
executeFunctionCallResetting(mv, fc) ==
    IF fc.name = "update_map_view"
    THEN [mv EXCEPT !.zoom = IF TruthyNumber(fc.args.zoom) THEN fc.args.zoom.val ELSE 13,
                    !.mapCenter = IF TruthyNumber(fc.args.latitude)
                                     /\ TruthyNumber(fc.args.longitude)
                                  THEN [lat |-> fc.args.latitude.val,
                                        lng |-> fc.args.longitude.val]
                                  ELSE @]
    ELSE mv

executeFunctionCall(mv, fc) ==
    LET a == fc.args
        mv1 == IF fc.name = "set_map_layer"
               THEN [mv EXCEPT !.activeLayer = a.layer.val] ELSE mv
        mv2 == IF fc.name = "toggle_traffic"
               THEN [mv1 EXCEPT !.showTraffic = a.enabled] ELSE mv1
        mv3 == IF fc.name = "update_map_view" /\ TruthyNumber(a.zoom)
               THEN [mv2 EXCEPT !.zoom = a.zoom.val] ELSE mv2
        mv4 == IF /\ fc.name = "update_map_view"
                  /\ TruthyNumber(a.latitude)
                  /\ TruthyNumber(a.longitude)
               THEN [mv3 EXCEPT !.mapCenter = [lat |-> a.latitude.val,
                                               lng |-> a.longitude.val]]
               ELSE mv3
    IN  mv4

\* The calls run from the last to the first.
RECURSIVE forEachCallReversed(_, _, _)
forEachCallReversed(mv, fcs, k) ==
    IF k > Len(fcs) THEN [threw |-> FALSE, mv |-> mv]
    ELSE LET fc == fcs[Len(fcs) - k + 1]
         IN  IF Throws(fc) THEN [threw |-> TRUE, mv |-> mv]
             ELSE forEachCallReversed(executeFunctionCall(mv, fc), fcs, k + 1)

\* functionCalls.forEach(executeFunctionCall): the calls run in list order;
\* the first one that throws ends the loop, what ran before it stays set.
RECURSIVE forEachCall(_, _, _)
forEachCall(mv, fcs, k) ==
    IF k > Len(fcs) THEN [threw |-> FALSE, mv |-> mv]
    ELSE IF Throws(fcs[k]) THEN [threw |-> TRUE, mv |-> mv]
    ELSE forEachCall(executeFunctionCall(mv, fcs[k]), fcs, k + 1)

----------------------------------------------------------------------------
(* The marker synthesis of handleSend.                                     *)

\* Array.prototype.indexOf, 0-based, -1 when absent.
RECURSIVE indexOfFrom(_, _, _)
indexOfFrom(arr, x, k) ==
    IF k > Len(arr) THEN -1
    ELSE IF arr[k] = x THEN k - 1
    ELSE indexOfFrom(arr, x, k + 1)

\* Array.prototype.lastIndexOf: what a last-match lookup would return.
lastIndexOf(arr, x) ==
    LET hits == {k \in 1..Len(arr) : arr[k] = x}
    IN  IF hits = {} THEN -1 ELSE Max(hits) - 1

indexOf(arr, x) == indexOfFrom(arr, x, 1)

\* stopIdx !== undefined && stopIdx !== -1 ? stopIdx + 1 : undefined
stopNumberOf(routeData, title) ==
    IF ~routeData.present THEN NoNumber
    ELSE LET stopIdx == indexOf(routeData.stops, title)
         IN  IF stopIdx # -1 THEN [some |-> TRUE, val |-> stopIdx + 1] ELSE NoNumber

\* `marker-${Date.now()}-${i}`
markerId(t, i) == <<"marker-", t, "-", i>>

\* The sampled Math.random() draws of one marker: the two position offsets
\* (within +-0.02 degree) and the rating (4 + a fraction).
RandomDraws == {[offsetLat |-> -2, offsetLng |-> 1, rating |-> 4]}

\* links.map((link, i) => ({...})), i counting from 0; readings[k] is what
\* Date.now() returns for link k, draws[k] its random draws.  The placeholder
\* strings (photoUrl, hours, address, phone, website, reviewCount) are
\* written once here and read by nothing but the popup; they are left out.
newMarkers(links, routeData, center, readings, draws) ==
    [k \in 1..Len(links) |->
        [uri |-> links[k].uri,
         title |-> links[k].title,
         id |-> markerId(readings[k], k - 1),
         lat |-> center.lat + draws[k].offsetLat,
         lng |-> center.lng + draws[k].offsetLng,
         rating |-> draws[k].rating,
         color |-> "bg-red-500",
         iconType |-> "pin",
         stopNumber |-> stopNumberOf(routeData, links[k].title)]]

\* text.includes / text.replace('[ACTION: SHOW_MAP]', '').trim(): the first
\* occurrence is removed.
includesDirective(text) == \E i \in 1..Len(text) : text[i] = DIRECTIVE

displayTextOf(text) ==
    IF includesDirective(text)
    THEN LET i == Min({k \in 1..Len(text) : text[k] = DIRECTIVE})
         IN  Trim(Slice(text, 1, i - 1) \o Slice(text, i + 1, Len(text)))
    ELSE text

\* activeRoute: the route of the last message that has one.
activeRoute ==
    LET withRoute == {i \in 1..Len(messages) : messages[i].route.present}
    IN  IF withRoute = {} THEN NoRoute ELSE messages[Max(withRoute)].route

----------------------------------------------------------------------------
(* Inputs: what the user types or taps, and what askMaps returns.          *)

InputValues == {<<>>, <<" ">>, <<"h", "i">>}

\* handleSend() from an input field or the send button (no argument), or
\* handleSend(<fixed prompt>) from a suggestion button.
SendArguments == {<<>>, <<"Plan a route to central park with stops for coffee and lunch">>}

TextPlain == <<"a">>
TextShowMap == <<DIRECTIVE, " ", "a">>
TextShowMapSteps == <<DIRECTIVE, "\n", "1", ".", " ", "a">>
TextShowMapTwice == <<DIRECTIVE, DIRECTIVE, " ", "a">>

CallLayer == FunctionCall("set_map_layer",
                 Args(NoNumber, NoNumber, NoNumber, [some |-> TRUE, val |-> "satellite"], NoFlag))
CallTraffic == FunctionCall("toggle_traffic",
                 Args(NoNumber, NoNumber, NoNumber, NoLayer, [some |-> TRUE, val |-> TRUE]))
CallView == FunctionCall("update_map_view",
                 Args([some |-> TRUE, val |-> 15], [some |-> TRUE, val |-> 4071],
                      [some |-> TRUE, val |-> -7400], NoLayer, NoFlag))
CallViewNoArgs == FunctionCall("update_map_view", NoArgs)
CallCenterOnly == FunctionCall("update_map_view",
                 Args(NoNumber, [some |-> TRUE, val |-> 5150], [some |-> TRUE, val |-> -12],
                      NoLayer, NoFlag))

Response(text, links, functionCalls) ==
    [text |-> text, links |-> links, functionCalls |-> functionCalls]

\* The results of askMaps the model draws from: {text, links, functionCalls}.
Responses ==
    {
      Response(TextPlain, <<Link("A")>>, Undefined),
      Response(TextPlain, <<Link("A"), Link("B")>>, Undefined),
      Response(TextShowMap, <<Link("A")>>, Some(<<CallLayer, CallViewNoArgs>>)),
      Response(TextShowMapSteps, <<>>, Some(<<CallView, CallCenterOnly, CallTraffic>>)),
      Response(TextShowMapTwice, <<>>, Undefined) }

----------------------------------------------------------------------------
(* The application.                                                        *)

AppInit ==
    /\ messages = <<>>
    /\ input = <<>>
    /\ isChatOpen = FALSE
    /\ isProcessing = FALSE
    /\ showTraffic = Some(FALSE)
    /\ activeLayer = "standard"
    /\ activeMarkers = <<>>
    /\ zoom = 13
    /\ mapCenter = DefaultCenter
    /\ isVoiceMode = FALSE
    /\ view = [isProcessing |-> FALSE, messages |-> <<>>, input |-> <<>>,
               mapCenter |-> DefaultCenter, isChatOpen |-> FALSE]
    /\ calls = {}
    /\ now = 0
    /\ nSubmits = 0
    /\ nEdits = 0

\* React renders: the closures of the handlers capture the current state.
\* A state update is committed by a later render, so a handler can run on
\* the closure of the render before it.  handleSend is the one handler that
\* reads captured state (isProcessing, input, messages, mapCenter); every
\* other step writes through the setters only, so whether it runs before or
\* after the pending render makes no difference to it, and it is taken
\* after the render (Rendered).
Rendered == view = Snapshot

Render ==
    /\ view # Snapshot
    /\ view' = Snapshot
    /\ UNCHANGED <<messages, input, isChatOpen, isProcessing, showTraffic,
                   activeLayer, activeMarkers, zoom, mapCenter, isVoiceMode,
                   calls, now, nSubmits, nEdits, parseVars, execVars, voiceVars, toolVars>>

\* onChange of the input fields: setInput(e.target.value)
setInput(v) ==
    /\ Rendered
    /\ v # input
    /\ input' = v
    /\ UNCHANGED <<messages, isChatOpen, isProcessing, showTraffic, activeLayer,
                   activeMarkers, zoom, mapCenter, isVoiceMode, view, calls, now,
                   nSubmits, nEdits, parseVars, execVars, voiceVars, toolVars>>

\* const finalInput = textToSend || input
finalInputOf(textToSend) == IF textToSend # <<>> THEN textToSend ELSE view.input

\* if (!finalInput.trim() || isProcessing) return
sendRejected(textToSend) == Trim(finalInputOf(textToSend)) = <<>> \/ view.isProcessing

\* messages.map(m => ({ role: m.role, content: m.content }))
historyOf(msgs) == [i \in 1..Len(msgs) |-> [role |-> msgs[i].role, content |-> msgs[i].content]]

\* askMaps: the contents sent to the model are the history with the role
\* assistant renamed to model, then one user entry with the prompt.
contentsOf(history, prompt) ==
    [i \in 1..Len(history) |->
        [role |-> IF history[i].role = "assistant" THEN "model" ELSE "user",
         text |-> history[i].content]]
    \o <<[role |-> "user", text |-> prompt]>>

\* The suggestion buttons, which pass a prompt, are rendered while the
\* transcript is empty; the input field and the send button pass nothing.
offered(textToSend) == textToSend # <<>> => Len(view.messages) = 0

\* handleSend up to its await: the guard, the four state updates and the
\* call of askMaps.  Everything it reads is what its closure captured.
handleSend(textToSend) ==
    IF sendRejected(textToSend)
    THEN /\ offered(textToSend)
         /\ UNCHANGED vars
    ELSE /\ nSubmits < MaxTurns
         /\ offered(textToSend)
         /\ messages' = Append(messages, UserMessage(finalInputOf(textToSend)))
         /\ input' = <<>>
         /\ isChatOpen' = TRUE
         /\ isProcessing' = TRUE
         /\ calls' = calls \cup {[id |-> nSubmits + 1,
                                  prompt |-> finalInputOf(textToSend),
                                  history |-> historyOf(view.messages),
                                  center |-> view.mapCenter]}
         /\ nSubmits' = nSubmits + 1
         /\ UNCHANGED <<showTraffic, activeLayer, activeMarkers, zoom, mapCenter,
                        isVoiceMode, view, now, nEdits, parseVars, execVars, voiceVars, toolVars>>

\* A catch block that swallows the error.
catchSilent(msgs) == msgs

\* catch (error) { setMessages(prev => [...prev, <failure>]) }
catchBlock(msgs) == Append(msgs, FailureMessage)

\* No finally block: the flag stays as the submit set it.
finallySkipped == isProcessing

\* finally { setIsProcessing(false) }
finallyBlock == FALSE

\* askMaps rejects: handleSend resumes in its catch block.
askMapsRejects(c) ==
    /\ Rendered
    /\ c \in calls
    /\ calls' = calls \ {c}
    /\ messages' = catchBlock(messages)
    /\ isProcessing' = finallyBlock
    /\ UNCHANGED <<input, isChatOpen, showTraffic, activeLayer, activeMarkers,
                   zoom, mapCenter, isVoiceMode, view, now, nSubmits, nEdits,
                   parseVars, execVars, voiceVars, toolVars>>

\* setActiveMarkers(newMarkers): the markers replaced, not appended.
replaceMarkers(prev, new) == new

\* setActiveMarkers(prev => [...prev, ...newMarkers])
appendMarkers(prev, new) == prev \o new

\* askMaps resolves with r: handleSend resumes after its await and runs to
\* its end (the directive, the tool calls, the route, the markers, the
\* assistant message; the catch block when a tool call throws; finally).
askMapsResolves(c, r, draws, readings) ==
    LET showMap == includesDirective(r.text)
        ran == IF r.functionCalls.some
               THEN forEachCall(MapView, r.functionCalls.val, 1)
               ELSE [threw |-> FALSE, mv |-> MapView]
        routeData == parseRouteData(r.text, r.links)
    IN  /\ Rendered
        /\ c \in calls
        /\ calls' = calls \ {c}
        /\ isChatOpen' = IF showMap THEN FALSE ELSE isChatOpen
        /\ zoom' = ran.mv.zoom
        /\ mapCenter' = ran.mv.mapCenter
        /\ activeLayer' = ran.mv.activeLayer
        /\ showTraffic' = ran.mv.showTraffic
        /\ IF ran.threw
           THEN /\ messages' = catchBlock(messages)
                /\ UNCHANGED activeMarkers
           ELSE /\ activeMarkers' =
                      IF Len(r.links) > 0
                      THEN appendMarkers(activeMarkers,
                               newMarkers(r.links, routeData, c.center, readings, draws))
                      ELSE activeMarkers
                /\ messages' = Append(messages,
                      AssistantMessage(displayTextOf(r.text), r.links, routeData))
        /\ isProcessing' = finallyBlock
        /\ now' = IF readings = <<>> THEN now ELSE readings[Len(readings)]
        /\ UNCHANGED <<input, isVoiceMode, view, nSubmits, nEdits, parseVars, execVars, voiceVars, toolVars>>

\* s.close() on the session of an attempt: run at once when the promise of
\* connect has resolved, queued on the promise while it is pending, never run
\* when it was rejected.  Closing a session that is closing or closed
\* changes nothing.
closeSession(a) ==
    CASE a.phase = "connecting" -> [a EXCEPT !.closeQueued = TRUE]
      [] a.phase = "open" -> [a EXCEPT !.phase = "closing"]
      [] OTHER -> a

\* stopVoiceMode: sessionPromiseRef.current?.then(s => s.close());
\* setIsVoiceMode(false)
stopVoiceMode ==
    /\ v_att' = IF v_ref = 0 THEN v_att ELSE [v_att EXCEPT ![v_ref] = closeSession(@)]
    /\ isVoiceMode' = FALSE

\* The reset button of the chat header (rendered while the chat is open).
resetSession ==
    /\ Rendered
    /\ view.isChatOpen
    /\ messages' = <<>>
    /\ isChatOpen' = FALSE
    /\ input' = <<>>
    /\ activeMarkers' = <<>>
    /\ stopVoiceMode
    /\ UNCHANGED <<isProcessing, showTraffic, activeLayer, zoom, mapCenter, view,
                   calls, now, nSubmits, nEdits, parseVars, execVars, v_ref,
                   v_chunks, v_clock, v_frames, v_deferred, toolVars>>

\* prev.map(m => m.id === id ? { ...m, ...up } : m)
styleEdit(prev, id, up) ==
    [k \in 1..Len(prev) |->
        IF prev[k].id = id
        THEN [prev[k] EXCEPT !.color = IF up.color.some THEN up.color.val ELSE @,
                             !.iconType = IF up.iconType.some THEN up.iconType.val ELSE @]
        ELSE prev[k]]

\* The updates the style picker passes: {iconType: i.type} or {color: c.class},
\* here with one color of MARKER_COLORS and one icon of MARKER_ICONS.
NoStyle == [some |-> FALSE, val |-> ""]
StyleUpdates ==
    {[color |-> [some |-> TRUE, val |-> c], iconType |-> NoStyle] : c \in {"bg-blue-500"}}
    \cup {[color |-> NoStyle, iconType |-> [some |-> TRUE, val |-> i]] : i \in {"star"}}

\* onMarkerUpdate(selectedMarker.id, up) from the style picker of the
\* selected marker.
onMarkerUpdate(id, up) ==
    /\ Rendered
    /\ nEdits < MaxEdits
    /\ \E k \in 1..Len(activeMarkers) : activeMarkers[k].id = id
    /\ activeMarkers' = styleEdit(activeMarkers, id, up)
    /\ nEdits' = nEdits + 1
    /\ UNCHANGED <<messages, input, isChatOpen, isProcessing, showTraffic,
                   activeLayer, zoom, mapCenter, isVoiceMode, view, calls, now,
                   nSubmits, parseVars, execVars, voiceVars, toolVars>>

MarkerIds == {activeMarkers[k].id : k \in 1..Len(activeMarkers)}

\* Date.now() is read once per link when the markers of a response are
\* synthesized; a reading is never below the one before it, and is the one
\* before it or the next value of the clock.
clockReadingsFor(n) ==
    {rs \in [1..n -> {now, now + 1}] : \A j, k \in 1..n : j <= k => rs[j] <= rs[k]}

readsClock(r) ==
    /\ Len(r.links) > 0
    /\ ~(r.functionCalls.some /\ forEachCall(MapView, r.functionCalls.val, 1).threw)

clockReadings(r) == IF readsClock(r) THEN clockReadingsFor(Len(r.links)) ELSE {<<>>}

Submit == \E a \in SendArguments : handleSend(a)
Type == \E v \in InputValues : setInput(v)
Rejected == \E c \in calls : askMapsRejects(c)
Resolved ==
    \E c \in calls : \E r \in Responses :
        \E draws \in [1..Len(r.links) -> RandomDraws] :
            \E readings \in clockReadings(r) : askMapsResolves(c, r, draws, readings)
Edit == \E id \in MarkerIds : \E up \in StyleUpdates : onMarkerUpdate(id, up)

HarnessOff ==
    /\ p_pc = "off"
    /\ p_text = <<>>
    /\ p_links = <<>>
    /\ p_route = NoRoute
    /\ p_markers = <<>>

DispatchOff ==
    /\ e_pc = "off"
    /\ e_calls = <<>>
    /\ e_k = 1

\* No voice session yet.
VoiceInit ==
    /\ v_att = <<>>
    /\ v_ref = 0
    /\ v_chunks = <<>>
    /\ v_clock = 0
    /\ v_frames = {}
    /\ v_deferred = {}

\* No tool response sent, driving mode off.
ToolInit ==
    /\ v_responses = <<>>
    /\ isDrivingMode = FALSE
    /\ nPresses = 0

Init == AppInit /\ HarnessOff /\ DispatchOff /\ VoiceInit /\ ToolInit

Next ==
    \/ Render
    \/ Type
    \/ Submit
    \/ Rejected
    \/ Resolved
    \/ resetSession

Spec == Init /\ [][Next]_vars

\* The same with the style picker.
EditNext == Next \/ Edit

EditSpec == Init /\ [][EditNext]_vars

\* The render React has scheduled happens, and askMaps settles its promise.
LiveSpec == Spec /\ WF_vars(Render) /\ SF_vars(Rejected \/ Resolved)

----------------------------------------------------------------------------
(* The voice session.  Every call of startVoiceMode is an attempt with its *)
(* own locals (nextStartTime, sources, the capture pipeline) and its own   *)
(* session; sessionPromiseRef and the output audio context are shared.     *)
(*   phase: "mic"        awaiting getUserMedia                             *)
(*          "connecting" ai.live.connect called, its promise pending       *)
(*          "open"       the promise resolved, onopen has run              *)
(*          "closing"    s.close() called, onclose not yet delivered       *)
(*          "closed"     onclose delivered                                 *)
(*          "failed"     getUserMedia or connect rejected                  *)

\* audioBuffer.duration of a chunk, in ticks of the output clock.
ChunkDuration == 1

NewAttempt ==
    [phase |-> "mic", capture |-> FALSE, nextStartTime |-> 0, sources |-> {},
     closeQueued |-> FALSE, errored |-> FALSE]

Attempts == 1..Len(v_att)
Chunks == 1..Len(v_chunks)

\* decodeAudioData is an async function that never awaits: its promise is
\* resolved when it returns, and the handler that awaits it resumes in a
\* microtask of the same task, the handlers resuming in the order in which
\* they suspended.  While a handler is suspended there, no other task runs
\* (no render, no user event, no event of the connection or the microphone,
\* no step of the output clock); only the handlers of further messages
\* delivered in the same task can run before it resumes.
Settled == \A c \in Chunks : v_chunks[c].status # "decoding"

\* A start time that ignores the end of the chunk scheduled before.
startTimeNow(nextStartTime, currentTime) == currentTime

\* nextStartTime = Math.max(nextStartTime, outputCtx.currentTime)
startTimeOf(nextStartTime, currentTime) == Max({nextStartTime, currentTime})

voiceFrame ==
    <<messages, input, isProcessing, showTraffic, activeLayer, activeMarkers,
      zoom, mapCenter, view, calls, now, nSubmits, nEdits, parseVars, execVars,
      toolVars>>

\* The voice button while isVoiceMode is false.
startVoiceMode ==
    /\ Settled
    /\ Rendered
    /\ ~isVoiceMode
    /\ Len(v_att) < MaxSessions
    /\ isVoiceMode' = TRUE
    /\ isChatOpen' = TRUE
    /\ v_att' = Append(v_att, NewAttempt)
    /\ UNCHANGED <<voiceFrame, v_ref, v_chunks, v_clock, v_frames, v_deferred>>

\* getUserMedia resolves: sessionPromiseRef.current = ai.live.connect(...)
micGranted(i) ==
    /\ Settled
    /\ v_att[i].phase = "mic"
    /\ v_att' = [v_att EXCEPT ![i].phase = "connecting"]
    /\ v_ref' = i
    /\ UNCHANGED <<voiceFrame, isVoiceMode, isChatOpen, v_chunks, v_clock, v_frames,
                   v_deferred>>

\* getUserMedia rejects: startVoiceMode ends there, with nothing to catch it.
micDenied(i) ==
    /\ Settled
    /\ v_att[i].phase = "mic"
    /\ v_att' = [v_att EXCEPT ![i].phase = "failed"]
    /\ UNCHANGED <<voiceFrame, isVoiceMode, isChatOpen, v_ref, v_chunks, v_clock,
                   v_frames, v_deferred>>

\* The promise of connect rejects: what was queued on it never runs.  The
\* transport may or may not report the failure to onclose as well.
connectFails(i) ==
    /\ Settled
    /\ v_att[i].phase = "connecting"
    /\ v_att' = [v_att EXCEPT ![i].phase = "failed"]
    /\ v_deferred' = {d \in v_deferred : d.to # i}
    /\ isVoiceMode' \in {isVoiceMode, FALSE}
    /\ UNCHANGED <<voiceFrame, isChatOpen, v_ref, v_chunks, v_clock, v_frames>>

\* The connection opens: onopen builds the capture pipeline of the attempt,
\* the promise of connect resolves and what was queued on it runs (the
\* sends, and s.close() if stopVoiceMode asked for it).
onopen(i) ==
    /\ Settled
    /\ v_att[i].phase = "connecting"
    /\ v_att' = [v_att EXCEPT ![i].phase = IF v_att[i].closeQueued THEN "closing" ELSE "open",
                              ![i].capture = TRUE]
    /\ v_frames' = v_frames \cup {d \in v_deferred : d.to = i}
    /\ v_deferred' = {d \in v_deferred : d.to # i}
    /\ UNCHANGED <<voiceFrame, isVoiceMode, isChatOpen, v_ref, v_chunks, v_clock>>

\* scriptProcessor.onaudioprocess of attempt i: the frame goes to whatever
\* session sessionPromiseRef holds now.  A frame records the attempt that
\* captured it, whether the session of that attempt was closed at the
\* capture, and the attempt whose session it is sent on.
onaudioprocess(i) ==
    /\ Settled
    /\ v_att[i].capture
    /\ v_ref # 0
    /\ Cardinality(v_frames) + Cardinality(v_deferred) < MaxFrames
    /\ LET frame == [from |-> i, late |-> v_att[i].phase = "closed", to |-> v_ref]
       IN  CASE v_att[v_ref].phase = "connecting" ->
                  /\ v_deferred' = v_deferred \cup {frame}
                  /\ UNCHANGED v_frames
             [] v_att[v_ref].phase \in {"open", "closing", "closed"} ->
                  /\ v_frames' = v_frames \cup {frame}
                  /\ UNCHANGED v_deferred
             [] OTHER -> UNCHANGED <<v_frames, v_deferred>>
    /\ UNCHANGED <<voiceFrame, isVoiceMode, isChatOpen, v_att, v_ref, v_chunks, v_clock>>

\* onmessage with an audio chunk, up to its await:
\* nextStartTime = Math.max(nextStartTime, outputCtx.currentTime)
onmessageAudio(i) ==
    /\ v_att[i].phase = "open"
    /\ Len(v_chunks) < MaxChunks
    /\ v_att' = [v_att EXCEPT ![i].nextStartTime = startTimeOf(@, v_clock)]
    /\ v_chunks' = Append(v_chunks,
           [session |-> i, status |-> "decoding", begins |-> 0, interrupted |-> FALSE])
    /\ UNCHANGED <<voiceFrame, isVoiceMode, isChatOpen, v_ref, v_clock, v_frames,
                   v_deferred>>

\* decodeAudioData resolves for chunk c: source.start(nextStartTime);
\* nextStartTime += audioBuffer.duration; sources.add(source).  A source
\* started with a time that has passed begins to play at once.
decoded(c) ==
    /\ v_chunks[c].status = "decoding"
    /\ \A d \in 1..(c - 1) : v_chunks[d].status # "decoding"
    /\ LET i == v_chunks[c].session
       IN  /\ v_chunks' = [v_chunks EXCEPT ![c].status = "started",
                                          ![c].begins = Max({v_att[i].nextStartTime, v_clock})]
           /\ v_att' = [v_att EXCEPT ![i].nextStartTime = @ + ChunkDuration,
                                     ![i].sources = @ \cup {c}]
    /\ UNCHANGED <<voiceFrame, isVoiceMode, isChatOpen, v_ref, v_clock, v_frames,
                   v_deferred>>

\* onmessage with serverContent.interrupted: sources.forEach(s => s.stop());
\* sources.clear(); nextStartTime = 0.  Every chunk the attempt has received
\* so far is marked as received before an interruption.
onmessageInterrupted(i) ==
    /\ v_att[i].phase = "open"
    /\ v_chunks' = [c \in Chunks |->
                       IF v_chunks[c].session # i THEN v_chunks[c]
                       ELSE [v_chunks[c] EXCEPT
                                !.status = IF c \in v_att[i].sources THEN "stopped" ELSE @,
                                !.interrupted = TRUE]]
    /\ v_att' = [v_att EXCEPT ![i].sources = {}, ![i].nextStartTime = 0]
    /\ UNCHANGED <<voiceFrame, isVoiceMode, isChatOpen, v_ref, v_clock, v_frames,
                   v_deferred>>

\* onclose: setIsVoiceMode(false).  Delivered after s.close(), or when the
\* remote end closes an open session.
onclose(i) ==
    /\ Settled
    /\ v_att[i].phase \in {"open", "closing"}
    /\ v_att' = [v_att EXCEPT ![i].phase = "closed"]
    /\ isVoiceMode' = FALSE
    /\ UNCHANGED <<voiceFrame, isChatOpen, v_ref, v_chunks, v_clock, v_frames,
                   v_deferred>>

\* onerror: console.error('Live Error:', e)
onerror(i) ==
    /\ Settled
    /\ v_att[i].phase = "open"
    /\ ~v_att[i].errored
    /\ v_att' = [v_att EXCEPT ![i].errored = TRUE]
    /\ UNCHANGED <<voiceFrame, isVoiceMode, isChatOpen, v_ref, v_chunks, v_clock,
                   v_frames, v_deferred>>

\* The voice button or the End Session button while isVoiceMode is true.
stopPressed ==
    /\ Settled
    /\ Rendered
    /\ isVoiceMode
    /\ stopVoiceMode
    /\ UNCHANGED <<voiceFrame, isChatOpen, v_ref, v_chunks, v_clock, v_frames,
                   v_deferred>>

\* The output clock advances.
TickOutput ==
    /\ Settled
    /\ v_clock < MaxTime
    /\ v_clock' = v_clock + 1
    /\ UNCHANGED <<voiceFrame, isVoiceMode, isChatOpen, v_att, v_ref, v_chunks,
                   v_frames, v_deferred>>


VoiceNext ==
    \/ Settled /\ Render
    \/ startVoiceMode
    \/ \E i \in Attempts : micGranted(i)
    \/ \E i \in Attempts : micDenied(i)
    \/ \E i \in Attempts : connectFails(i)
    \/ \E i \in Attempts : onopen(i)
    \/ \E i \in Attempts : onaudioprocess(i)
    \/ \E i \in Attempts : onmessageAudio(i)
    \/ \E c \in Chunks : decoded(c)
    \/ \E i \in Attempts : onmessageInterrupted(i)
    \/ \E i \in Attempts : onclose(i)
    \/ \E i \in Attempts : onerror(i)
    \/ stopPressed
    \/ Settled /\ resetSession
    \/ TickOutput

VoiceSpec == Init /\ [][VoiceNext]_vars

\* The playback of a session alone: its opening, its messages, the output
\* clock and its closing by the remote end.
PlaybackNext ==
    \/ Settled /\ Render
    \/ startVoiceMode
    \/ \E i \in Attempts : micGranted(i)
    \/ \E i \in Attempts : onopen(i)
    \/ \E i \in Attempts : onmessageAudio(i)
    \/ \E c \in Chunks : decoded(c)
    \/ \E i \in Attempts : onmessageInterrupted(i)
    \/ \E i \in Attempts : onclose(i)
    \/ TickOutput

PlaybackSpec == Init /\ [][PlaybackNext]_vars

----------------------------------------------------------------------------
(* The function harness: parseRouteData and the marker synthesis applied   *)
(* to bounded texts and link lists.                                        *)

Fragments == {<<"1">>, <<".">>, <<" ">>, <<"\n">>, <<"a">>}
LinkTitles == {"A", "B"}

RECURSIVE TextsOf(_)
TextsOf(n) ==
    IF n = 0 THEN {<<>>}
    ELSE LET shorter == TextsOf(n - 1)
         IN  shorter \cup {t \o f : t \in shorter, f \in Fragments}

LinkLists == UNION {[1..n -> {Link(t) : t \in LinkTitles}] : n \in 0..MaxLinks}

HarnessInit ==
    /\ AppInit
    /\ DispatchOff
    /\ VoiceInit
    /\ ToolInit
    /\ p_pc = "ready"
    /\ p_text \in TextsOf(MaxFrags)
    /\ p_links \in LinkLists
    /\ p_route = NoRoute
    /\ p_markers = <<>>

\* const routeData = parseRouteData(text, links)
ParseStep ==
    /\ p_pc = "ready"
    /\ p_route' = parseRouteData(p_text, p_links)
    /\ p_pc' = "parsed"
    /\ UNCHANGED <<p_text, p_links, p_markers, appVars, execVars, voiceVars, toolVars>>

\* const newMarkers = links.map(...)
SynthesisStep ==
    /\ p_pc = "parsed"
    /\ \E draws \in [1..Len(p_links) -> RandomDraws] :
           \E readings \in clockReadingsFor(Len(p_links)) :
               p_markers' = newMarkers(p_links, p_route, mapCenter, readings, draws)
    /\ p_pc' = "done"
    /\ UNCHANGED <<p_text, p_links, p_route, appVars, execVars, voiceVars, toolVars>>

HarnessNext == ParseStep \/ SynthesisStep

ParseSpec == HarnessInit /\ [][HarnessNext]_vars

----------------------------------------------------------------------------
(* The extraction harness: parseRouteData applied to the texts the system  *)
(* instruction asks the model to write and to bounded texts made of        *)
(* labels, ordinals, numbers, words, parentheses and separators.           *)

\* 'Total time: 45 mins.'
DurationExample ==
    <<"Total time:", " ", "4", "5", " ", "m", "i", "n", "s", ".">>

\* 'Total distance: 12.5 miles'
DistanceExample ==
    <<"Total distance:", " ", "1", "2", ".", "5", " ", "m", "i", "l", "e",
      "s">>

\* '1. Turn left onto Main St (0.3 mi)'
StepExample ==
    <<"1", ".", " ", "T", "u", "r", "n", " ", "l", "e", "f", "t", " ", "o",
      "n", "t", "o", " ", "M", "a", "i", "n", " ", "S", "t", " ", "(", "0",
      ".", "3", " ", "m", "i", ")">>

ExtractFragments ==
    {<<"1", ".">>, <<" ">>, <<"\n">>, <<".">>, <<"a">>, <<"4">>, <<"(">>, <<")">>,
     <<"Total time:">>, <<"Distance:">>}

RECURSIVE ExtractTextsOf(_)
ExtractTextsOf(n) ==
    IF n = 0 THEN {<<>>}
    ELSE LET shorter == ExtractTextsOf(n - 1)
         IN  shorter \cup {t \o f : t \in shorter, f \in ExtractFragments}

ExtractInit ==
    /\ AppInit
    /\ DispatchOff
    /\ VoiceInit
    /\ ToolInit
    /\ p_pc = "ready"
    /\ p_text \in ExtractTextsOf(MaxFrags)
                  \cup {DurationExample, DistanceExample, StepExample,
                        DistanceExample \o <<"\n">> \o StepExample}
    /\ p_links \in {<<>>, <<Link("A"), Link("B")>>}
    /\ p_route = NoRoute
    /\ p_markers = <<>>

ExtractSpec == ExtractInit /\ [][ParseStep]_vars

----------------------------------------------------------------------------
(* The dispatch harness: executeFunctionCall applied, one call after the   *)
(* other, to bounded lists of function calls, as the forEach of handleSend *)
(* and the for loop of the voice session's onmessage apply it.             *)

KnownTools == {"update_map_view", "set_map_layer", "toggle_traffic"}

CallUnknown == FunctionCall("open_street_view",
                 Args([some |-> TRUE, val |-> 15], [some |-> TRUE, val |-> 4071],
                      [some |-> TRUE, val |-> -7400],
                      [some |-> TRUE, val |-> "satellite"], [some |-> TRUE, val |-> TRUE]))
CallUnknownNoArgs == FunctionCall("open_street_view", NoArgs)
CallZoomOnly == FunctionCall("update_map_view",
                 Args([some |-> TRUE, val |-> 15], NoNumber, NoNumber, NoLayer, NoFlag))
CallZoomZero == FunctionCall("update_map_view",
                 Args([some |-> TRUE, val |-> 0], NoNumber, NoNumber, NoLayer, NoFlag))
CallLatOnly == FunctionCall("update_map_view",
                 Args(NoNumber, [some |-> TRUE, val |-> 4071], NoNumber, NoLayer, NoFlag))
CallLngOnly == FunctionCall("update_map_view",
                 Args(NoNumber, NoNumber, [some |-> TRUE, val |-> -7400], NoLayer, NoFlag))
CallTrafficOff == FunctionCall("toggle_traffic",
                 Args(NoNumber, NoNumber, NoNumber, NoLayer, [some |-> TRUE, val |-> FALSE]))

CallSamples == {CallUnknown, CallUnknownNoArgs, CallView, CallViewNoArgs, CallZoomOnly,
                CallZoomZero, CallLatOnly, CallLngOnly, CallCenterOnly, CallLayer,
                CallTraffic, CallTrafficOff}

CallLists == UNION {[1..n -> CallSamples] : n \in 0..MaxCalls}

DispatchInit ==
    /\ AppInit
    /\ HarnessOff
    /\ VoiceInit
    /\ ToolInit
    /\ e_calls \in CallLists
    /\ e_pc = IF e_calls = <<>> THEN "done" ELSE "run"
    /\ e_k = 1

\* One iteration of the loop: executeFunctionCall(fc).  A TypeError ends
\* the loop.
DispatchStep ==
    /\ e_pc = "run"
    /\ LET fc == e_calls[e_k]
           mv == executeFunctionCall(MapView, fc)
       IN  IF Throws(fc)
           THEN /\ e_pc' = "threw"
                /\ UNCHANGED <<e_k, zoom, mapCenter, activeLayer, showTraffic>>
           ELSE /\ zoom' = mv.zoom
                /\ mapCenter' = mv.mapCenter
                /\ activeLayer' = mv.activeLayer
                /\ showTraffic' = mv.showTraffic
                /\ e_k' = e_k + 1
                /\ e_pc' = IF e_k = Len(e_calls) THEN "done" ELSE "run"
    /\ UNCHANGED <<messages, input, isChatOpen, isProcessing, activeMarkers,
                   isVoiceMode, view, calls, now, nSubmits, nEdits, e_calls,
                   parseVars, voiceVars, toolVars>>

DispatchSpec == DispatchInit /\ [][DispatchStep]_vars

----------------------------------------------------------------------------
(* The map view and its writers: the tool calls of the voice session, the  *)
(* zoom buttons, the layer menu and the driving mode (MapSpec); the tool   *)
(* calls of a turn next to those of the voice session (SharedSpec).        *)

\* return "UI updated successfully."
Acknowledgement == "UI updated successfully."

CallZoomFar == FunctionCall("update_map_view",
                 Args([some |-> TRUE, val |-> 25], NoNumber, NoNumber, NoLayer, NoFlag))

\* The functionCalls of the toolCall messages the voice session receives.
VoiceCallLists ==
    {<<CallZoomOnly, CallTrafficOff>>, <<CallUnknown, CallLayer>>,
     <<CallLayer, CallViewNoArgs>>, <<CallZoomFar>>}

\* How many calls of fcs run to their end: those before the first that
\* throws.
ranBefore(fcs) ==
    IF \E k \in 1..Len(fcs) : Throws(fcs[k])
    THEN Min({k \in 1..Len(fcs) : Throws(fcs[k])}) - 1
    ELSE Len(fcs)

\* A handler that commits the zoom and the center its calls gave and drops
\* what they gave for the layer and the traffic flag.
onmessageToolCallTorn(i, m, fcs) ==
    LET ran == forEachCall(MapView, fcs, 1)
        sent == [k \in 1..ranBefore(fcs) |->
                    [from |-> i, to |-> v_ref, message |-> m, id |-> k,
                     name |-> fcs[k].name, result |-> Acknowledgement]]
    IN  /\ v_att[i].phase = "open"
        /\ Len(v_responses) < MaxResponses
        /\ zoom' = ran.mv.zoom
        /\ mapCenter' = ran.mv.mapCenter
        /\ v_responses' = IF v_att[v_ref].phase = "failed" THEN v_responses
                          ELSE v_responses \o sent
        /\ UNCHANGED <<messages, input, isChatOpen, isProcessing, activeMarkers,
                       isVoiceMode, view, calls, now, nSubmits, nEdits, parseVars,
                       execVars, voiceVars, isDrivingMode, nPresses, activeLayer,
                       showTraffic>>

\* onmessage with a toolCall on the session of attempt i: each call is
\* executed and its response is handed to the session sessionPromiseRef
\* holds (sent when the promise of connect has resolved, queued while it is
\* pending, never sent when it was rejected); a call that throws ends the
\* handler.  m numbers the message.
onmessageToolCall(i, m, fcs) ==
    LET ran == forEachCall(MapView, fcs, 1)
        sent == [k \in 1..ranBefore(fcs) |->
                    [from |-> i, to |-> v_ref, message |-> m, id |-> k,
                     name |-> fcs[k].name, result |-> Acknowledgement]]
    IN  /\ v_att[i].phase = "open"
        /\ Len(v_responses) < MaxResponses
        /\ zoom' = ran.mv.zoom
        /\ mapCenter' = ran.mv.mapCenter
        /\ activeLayer' = ran.mv.activeLayer
        /\ showTraffic' = ran.mv.showTraffic
        /\ v_responses' = IF v_att[v_ref].phase = "failed" THEN v_responses
                          ELSE v_responses \o sent
        /\ UNCHANGED <<messages, input, isChatOpen, isProcessing, activeMarkers,
                       isVoiceMode, view, calls, now, nSubmits, nEdits, parseVars,
                       execVars, voiceVars, isDrivingMode, nPresses>>

\* The zoom buttons: setZoom(Math.min(zoom + 1, 18)), setZoom(Math.max(zoom - 1, 2))
zoomButton(z) ==
    /\ Rendered
    /\ ~isDrivingMode
    /\ nPresses < MaxPresses
    /\ nPresses' = nPresses + 1
    /\ zoom' = z
    /\ UNCHANGED <<messages, input, isChatOpen, isProcessing, showTraffic, activeLayer,
                   activeMarkers, mapCenter, isVoiceMode, view, calls, now, nSubmits,
                   nEdits, parseVars, execVars, voiceVars, v_responses, isDrivingMode>>

zoomIn == zoomButton(Min({zoom + 1, 18}))
zoomOut == zoomButton(Max({zoom - 1, 2}))

\* A button of the layer menu: setActiveLayer(layer)
layerMenu(layer) ==
    /\ Rendered
    /\ ~isDrivingMode
    /\ nPresses < MaxPresses
    /\ nPresses' = nPresses + 1
    /\ activeLayer' = layer
    /\ UNCHANGED <<messages, input, isChatOpen, isProcessing, showTraffic, zoom,
                   activeMarkers, mapCenter, isVoiceMode, view, calls, now, nSubmits,
                   nEdits, parseVars, execVars, voiceVars, v_responses, isDrivingMode>>

\* toggleDrivingMode: entering opens the chat, shows the traffic, zooms to
\* 17 and starts the voice mode unless isVoiceMode; leaving zooms to 13 and
\* stops the voice mode.
toggleDrivingMode ==
    /\ Rendered
    /\ nPresses < MaxPresses
    /\ nPresses' = nPresses + 1
    /\ isDrivingMode' = ~isDrivingMode
    /\ IF ~isDrivingMode
       THEN /\ isChatOpen' = TRUE
            /\ showTraffic' = Some(TRUE)
            /\ zoom' = 17
            /\ IF isVoiceMode
               THEN UNCHANGED <<isVoiceMode, v_att>>
               ELSE /\ Len(v_att) < MaxSessions
                    /\ isVoiceMode' = TRUE
                    /\ v_att' = Append(v_att, NewAttempt)
       ELSE /\ zoom' = 13
            /\ stopVoiceMode
            /\ UNCHANGED <<isChatOpen, showTraffic>>
    /\ UNCHANGED <<messages, input, isProcessing, activeLayer, activeMarkers, mapCenter,
                   view, calls, now, nSubmits, nEdits, parseVars, execVars, v_ref,
                   v_chunks, v_clock, v_frames, v_deferred, v_responses>>

MapNext ==
    \/ Render
    \/ startVoiceMode
    \/ \E i \in Attempts : micGranted(i)
    \/ \E i \in Attempts : onopen(i)
    \/ \E i \in Attempts : onclose(i)
    \/ \E i \in Attempts : \E fcs \in VoiceCallLists :
          onmessageToolCall(i, Len(v_responses) + 1, fcs)
    \/ stopPressed
    \/ zoomIn
    \/ zoomOut
    \/ \E layer \in MapLayers : layerMenu(layer)
    \/ toggleDrivingMode

MapSpec == Init /\ [][MapNext]_vars

\* The two sources of tool calls side by side: a turn and a voice session.
SharedNext ==
    \/ Render
    \/ Submit
    \/ Rejected
    \/ Resolved
    \/ startVoiceMode
    \/ \E i \in Attempts : micGranted(i)
    \/ \E i \in Attempts : onopen(i)
    \/ \E i \in Attempts : \E fcs \in VoiceCallLists :
          onmessageToolCall(i, Len(v_responses) + 1, fcs)

SharedSpec == Init /\ [][SharedNext]_vars

----------------------------------------------------------------------------
(* Properties of a turn.                                                   *)

Last(s) == s[Len(s)]

\* A step that appends the failure message to the transcript.
FailureAppended ==
    /\ Len(messages') = Len(messages) + 1
    /\ SubSeq(messages', 1, Len(messages)) = messages
    /\ Last(messages') = FailureMessage

\* C1 (turn failure outcome): a step in which askMaps rejects appends
\* exactly one assistant message holding the fixed failure text, leaves
\* activeMarkers, the earlier messages and the active route as they were,
\* and ends with isProcessing false.
TurnFailureOutcome ==
    [][(\E c \in calls : askMapsRejects(c)) =>
          /\ FailureAppended
          /\ Last(messages').role = "assistant"
          /\ Last(messages').content = FailureText
          /\ activeMarkers' = activeMarkers
          /\ activeRoute' = activeRoute
          /\ isProcessing' = FALSE]_vars

\* A second turn failed by a rejected call (the layer and the chat flag are
\* what no response of the model leaves them at when it throws), after a
\* first turn that left two markers and a route.
TurnFailureOutcomeWitness ==
    /\ Len(messages) = 4
    /\ messages[4] = FailureMessage
    /\ messages[2].route.present
    /\ Len(activeMarkers) = 2
    /\ activeLayer = "standard"
    /\ isChatOpen
    /\ ~isProcessing
    /\ calls = {}

\* C2 (atomic turn): a step that appends the failure message changes neither
\* the map view (zoom, center, layer, traffic), nor the chat-visibility
\* flag, nor the markers.
TurnAtomic ==
    [][FailureAppended =>
          UNCHANGED <<zoom, mapCenter, activeLayer, showTraffic, isChatOpen,
                      activeMarkers>>]_vars

\* C3 (concurrent submit guard): at most one model call is outstanding, so
\* a second submit before the first turn resolves issued none.
ConcurrentSubmitGuard == Cardinality(calls) <= 1

\* C4 (guaranteed cleanup): isProcessing is never true when no model call is
\* outstanding, and whenever it is true it is false again later, given that
\* every outstanding call settles.
GuaranteedCleanup ==
    /\ [](calls = {} => ~isProcessing)
    /\ [](isProcessing => <>(~isProcessing))

\* A turn whose response threw while it was applied (the first tool call
\* took effect, the failure message was appended), idle again.
GuaranteedCleanupWitness ==
    /\ Len(messages) = 2
    /\ messages[2] = FailureMessage
    /\ activeLayer = "satellite"
    /\ calls = {}
    /\ ~isProcessing

\* C5 (input rejection): a submit whose effective input is empty or
\* whitespace-only, or that arrives while a call is outstanding, changes
\* neither the transcript, the markers, the input field, the chat flag, the
\* map view nor isProcessing, and issues no call.
InputRejection ==
    [][\A a \in SendArguments :
          (handleSend(a) /\ (Trim(finalInputOf(a)) = <<>> \/ calls # {})) =>
              UNCHANGED <<messages, activeMarkers, input, isChatOpen, zoom,
                          mapCenter, activeLayer, showTraffic, isProcessing,
                          calls>>]_vars

----------------------------------------------------------------------------
(* Properties of the markers.                                              *)

\* The links carried by the assistant messages of a transcript: the links
\* the completed turns returned (a failed turn carries none).
RECURSIVE linksCarried(_)
linksCarried(msgs) ==
    IF msgs = <<>> THEN 0
    ELSE linksCarried(SubSeq(msgs, 1, Len(msgs) - 1))
            + (IF Last(msgs).links.some THEN Len(Last(msgs).links.val) ELSE 0)

SameButStyle(m, n) == [m EXCEPT !.color = n.color, !.iconType = n.iconType] = n

Restyled == {k \in 1..Len(activeMarkers) : activeMarkers'[k] # activeMarkers[k]}

\* A step other than the session reset keeps every marker at its position
\* with all its fields but color and iconType; a step that changes color or
\* iconType of a marker adds no marker, is not part of a turn, and changes
\* markers of one id only.
MarkersKept ==
    \/ activeMarkers' = <<>> /\ messages' = <<>>
    \/ /\ Len(activeMarkers') >= Len(activeMarkers)
       /\ \A k \in 1..Len(activeMarkers) : SameButStyle(activeMarkers[k], activeMarkers'[k])
       /\ Restyled # {} =>
              /\ Len(activeMarkers') = Len(activeMarkers)
              /\ UNCHANGED <<messages, calls>>
              /\ \A j, k \in Restyled : activeMarkers[j].id = activeMarkers[k].id

\* C6 (marker append-only): activeMarkers holds as many markers as the turns
\* of the transcript returned links, and every step keeps the markers there
\* are, in their order and with their field values, except that a style edit
\* changes color / iconType of what has the given id, and nothing else.
MarkerAppendOnly ==
    /\ [](Len(activeMarkers) = linksCarried(messages))
    /\ [][MarkersKept]_vars

\* Two turns completed, one link then two; the marker of the first turn was
\* restyled and the markers of the second turn came after it.
MarkerAppendOnlyWitness ==
    /\ Len(messages) = 4
    /\ Len(activeMarkers) = 3
    /\ activeMarkers[1].color = "bg-blue-500"
    /\ activeMarkers[1].title = "A"
    /\ activeMarkers[3].title = "B"
    /\ activeMarkers[2].color = "bg-red-500"
    /\ calls = {}

\* C7 (stop-number invariant): every marker that has a stopNumber n has
\* n >= 1 and its title is stops[n - 1] of the active route.
StopNumberInvariant ==
    \A k \in 1..Len(activeMarkers) :
        LET m == activeMarkers[k]
        IN  m.stopNumber.some =>
                /\ m.stopNumber.val >= 1
                /\ activeRoute.present
                /\ m.stopNumber.val <= Len(activeRoute.stops)
                /\ activeRoute.stops[m.stopNumber.val] = m.title

\* C8 (marker id uniqueness): no two markers of activeMarkers have the same
\* id.
MarkerIdUnique ==
    \A j, k \in 1..Len(activeMarkers) :
        j # k => activeMarkers[j].id # activeMarkers[k].id

----------------------------------------------------------------------------
(* Properties of parseRouteData and of the marker synthesis.               *)

\* The positions of stops that hold a title, counted from 1.
PositionsOf(stops, title) == {j \in 1..Len(stops) : stops[j] = title}

\* C9 (stop numbering): the marker of every link has stopNumber = 1 + the
\* index (from 0) of the first element of routeData.stops equal to the
\* link's title, and none when there is no route or no such element.
StopNumbering ==
    p_pc = "done" =>
        /\ Len(p_markers) = Len(p_links)
        /\ \A k \in 1..Len(p_links) :
               LET at == PositionsOf(p_route.stops, p_links[k].title)
               IN  IF p_route.present /\ at # {}
                   THEN /\ p_markers[k].stopNumber.some
                        /\ p_markers[k].stopNumber.val = 1 + (Min(at) - 1)
                   ELSE ~p_markers[k].stopNumber.some

\* The links A, B: the marker of B is stop 2.
StopNumberingWitness ==
    /\ p_pc = "done"
    /\ Titles(p_links) = <<"A", "B">>
    /\ p_markers[2].title = "B"
    /\ p_markers[2].stopNumber = [some |-> TRUE, val |-> 2]

\* A numbered step, said without the matching procedure: some line starts
\* with digits, a '.', whitespace, and a character after the whitespace
\* that is not a line end.
HasNumberedStep(t) ==
    \E p \in 1..Len(t) : \E d \in p..Len(t) : \E s \in (d + 3)..Len(t) :
        /\ AtLineStart(t, p)
        /\ \A i \in p..d : IsDigit(t[i])
        /\ t[d + 1] = "."
        /\ \A i \in (d + 2)..(s - 1) : IsSpace(t[i])
        /\ NotNewline(t[s])

\* C10 (route acceptance threshold): parseRouteData returns a route exactly
\* when the text has a numbered step or there are two links or more; a route
\* has the link titles, in link order, as its stops, and no steps when the
\* text has no numbered step.
RouteAcceptanceThreshold ==
    p_pc \in {"parsed", "done"} =>
        /\ p_route.present <=> (HasNumberedStep(p_text) \/ Len(p_links) >= 2)
        /\ p_route.present =>
               /\ p_route.stops = Titles(p_links)
               /\ (p_route.steps = <<>>) <=> ~HasNumberedStep(p_text)
        /\ ~p_route.present => p_route = NoRoute

\* No numbered step and the two links A, A: a route without steps whose
\* stops are both titles.
RouteAcceptanceThresholdWitness ==
    /\ p_pc = "parsed"
    /\ ~HasNumberedStep(p_text)
    /\ p_text # <<>>
    /\ Titles(p_links) = <<"A", "A">>
    /\ p_route.present
    /\ p_route.steps = <<>>
    /\ p_route.stops = <<"A", "A">>

----------------------------------------------------------------------------
(* Properties of executeFunctionCall.                                      *)

\* An iteration of the dispatch loop was taken.
Dispatched == e_pc = "run" /\ <<e_pc, e_k>>' # <<e_pc, e_k>>

\* C11 (unknown tool no-op): dispatching a call whose name is none of the
\* three tools leaves zoom, center, layer and traffic flag as they were and
\* raises nothing, with or without args: the loop goes on to the next call.
UnknownToolNoOp ==
    [][(Dispatched /\ e_calls[e_k].name \notin KnownTools) =>
          /\ UNCHANGED <<zoom, mapCenter, activeLayer, showTraffic>>
          /\ e_pc' # "threw"
          /\ e_k' = e_k + 1]_vars

\* A call of an unknown name without args was dispatched after a call that
\* moved the view; the view is as that call left it and the loop is done.
UnknownToolNoOpWitness ==
    /\ e_pc = "done"
    /\ e_calls = <<CallView, CallUnknownNoArgs>>
    /\ zoom = 15
    /\ mapCenter = [lat |-> 4071, lng |-> -7400]

\* C12 (partial viewport update): an update_map_view call that gives no zoom
\* leaves zoom as it was, one that gives no latitude (longitude) leaves the
\* latitude (longitude) of the center as it was, and none changes the layer
\* or the traffic flag.
PartialViewportUpdate ==
    [][(Dispatched /\ e_calls[e_k].name = "update_map_view") =>
          LET a == e_calls[e_k].args
          IN  /\ ~a.zoom.some => zoom' = zoom
              /\ ~a.latitude.some => mapCenter'.lat = mapCenter.lat
              /\ ~a.longitude.some => mapCenter'.lng = mapCenter.lng
              /\ UNCHANGED <<activeLayer, showTraffic>>]_vars

\* A call that gave only a center ran after a call that had set the zoom to
\* 15: the zoom is still 15, not the initial 13.
PartialViewportUpdateWitness ==
    /\ e_pc = "done"
    /\ e_calls = <<CallZoomOnly, CallCenterOnly>>
    /\ zoom = 15
    /\ mapCenter = [lat |-> 5150, lng |-> -12]

----------------------------------------------------------------------------
\* C13: once an interruption has been processed, no chunk of the session
\* that was received before it plays or keeps playing: each such chunk is
\* stopped and forgotten (none is started, none is held in sources), also
\* when its decode was still pending at the interruption.
PlaybackInterruption ==
    \A c \in Chunks :
        v_chunks[c].interrupted =>
            /\ v_chunks[c].status # "started"
            /\ c \notin v_att[v_chunks[c].session].sources

\* C14: after the session of an attempt has been stopped or closed, no audio
\* chunk of it is scheduled or playing: none is started with an end that
\* the output clock has not reached yet.
NoAudioAfterStop ==
    \A c \in Chunks :
        v_att[v_chunks[c].session].phase \in {"closing", "closed"} =>
            ~(/\ v_chunks[c].status = "started"
              /\ v_chunks[c].begins + ChunkDuration > v_clock)

\* C15: a closed session keeps no capture pipeline, and sendRealtimeInput is
\* never invoked with a frame captured after the closure of the capturing
\* session, neither on that session nor on a later one.
CaptureStopsOnClosure ==
    /\ \A i \in Attempts : v_att[i].phase = "closed" => ~v_att[i].capture
    /\ \A f \in v_frames : ~f.late

\* C16: every session-level error (onerror while the session is open, the
\* microphone refused, the connection refused) leaves the attempt without a
\* session (closed or failed) and isVoiceMode false.
SessionErrorsEndSession ==
    [][\A i \in Attempts :
          (onerror(i) \/ micDenied(i) \/ connectFails(i)) =>
              /\ isVoiceMode' = FALSE
              /\ v_att'[i].phase \in {"closed", "failed"}]_vars

\* C17: the reset leaves the transcript, the markers and the input empty,
\* isVoiceMode false and every voice attempt without a live session (closed,
\* failed, or with close() called or queued on its session); a step other
\* than the reset removes no message and no marker.
SessionReset ==
    [][/\ resetSession =>
             /\ messages' = <<>>
             /\ activeMarkers' = <<>>
             /\ input' = <<>>
             /\ isVoiceMode' = FALSE
             /\ \A i \in Attempts :
                   \/ v_att'[i].phase \in {"closing", "closed", "failed"}
                   \/ v_att'[i].phase = "connecting" /\ v_att'[i].closeQueued
       /\ ~resetSession =>
             /\ Len(messages') >= Len(messages)
             /\ Len(activeMarkers') >= Len(activeMarkers)]_vars

\* C18: in a route, duration and distance are absent when the text has no
\* label of theirs; 'Total time: 45 mins.' gives the duration '45 mins'
\* and 'Total distance: 12.5 miles' at the end of a line gives the distance
\* '12.5 miles'.
LabelledValueExtraction ==
    (p_pc = "parsed" /\ p_route.present) =>
        /\ (\A k \in 1..Len(p_text) : p_text[k] \notin DurationLabels)
               => p_route.duration = Undefined
        /\ (\A k \in 1..Len(p_text) : p_text[k] \notin DistanceLabels)
               => p_route.distance = Undefined
        /\ p_text = DurationExample
               => p_route.duration = Some(<<"4", "5", " ", "m", "i", "n", "s">>)
        /\ p_text \in {DistanceExample, DistanceExample \o <<"\n">> \o StepExample}
               => p_route.distance
                     = Some(<<"1", "2", ".", "5", " ", "m", "i", "l", "e", "s">>)

\* The steps of the lines of t from the line start p on, a line being of
\* the form '<integer>. <instruction>' when it is digits, a point, white
\* space and an instruction, all on that line.
RECURSIVE LineStepsFrom(_, _)
LineStepsFrom(t, p) ==
    IF p > Len(t) THEN <<>>
    ELSE LET e == RunEnd(t, p, ".")
             d == RunEnd(t, p, "\\d")
             numbered == /\ d >= p
                         /\ d + 2 <= e
                         /\ t[d + 1] = "."
                         /\ IsSpace(t[d + 2])
                         /\ Trim(Slice(t, d + 3, e)) # <<>>
         IN  (IF numbered
              THEN <<[instruction |-> Trim(Slice(t, d + 3, e)), distance |-> Undefined]>>
              ELSE <<>>) \o LineStepsFrom(t, e + 2)

HasInstruction(step) == step.instruction # <<>>

\* C19: the steps of a route that have an instruction are those of the
\* lines of the form '<integer>. <instruction>', in order, each with the
\* trimmed instruction of its line and, when the text has no parenthesis,
\* no distance; the line
\* '1. Turn left onto Main St (0.3 mi)' gives the instruction
\* 'Turn left onto Main St' with the distance '0.3 mi'.
StepExtraction ==
    (p_pc = "parsed" /\ p_route.present) =>
        /\ (\A k \in 1..Len(p_text) : p_text[k] # "(")
               => SelectSeq(p_route.steps, HasInstruction) = LineStepsFrom(p_text, 1)
        /\ p_text = StepExample
               => p_route.steps =
                     <<[instruction |-> SubSeq(StepExample, 4, 25),
                        distance |-> Some(SubSeq(StepExample, 28, 33))]>>

\* The map view after the calls fcs have run on mv one after the other,
\* from the first to the last.
RECURSIVE AppliedInOrder(_, _)
AppliedInOrder(mv, fcs) ==
    IF fcs = <<>> THEN mv
    ELSE AppliedInOrder(executeFunctionCall(mv, Head(fcs)), Tail(fcs))

CallsOf(r) == IF r.functionCalls.some THEN r.functionCalls.val ELSE <<>>

\* C20: when askMaps resolves with a response none of whose tool calls
\* throws, the turn leaves the map view that the tool calls give when run
\* in list order, one more marker per link, in the order of the links, and
\* exactly one more message: the assistant message with the display text
\* (the text without its first directive, trimmed, or the text as it is
\* when it has none), the links, and the route parsed from the raw text;
\* that message is not the failure message.
SuccessApplicationOrder ==
    [][\A c \in calls : \A r \in Responses :
          ((\E draws \in [1..Len(r.links) -> RandomDraws] :
               \E readings \in clockReadings(r) : askMapsResolves(c, r, draws, readings))
           /\ \A k \in 1..Len(CallsOf(r)) : ~Throws(CallsOf(r)[k]))
          => /\ MapView' = AppliedInOrder(MapView, CallsOf(r))
             /\ Len(activeMarkers') = Len(activeMarkers) + Len(r.links)
             /\ \A k \in 1..Len(activeMarkers) : activeMarkers'[k] = activeMarkers[k]
             /\ \A k \in 1..Len(r.links) :
                   activeMarkers'[Len(activeMarkers) + k].title = r.links[k].title
             /\ Len(messages') = Len(messages) + 1
             /\ \A k \in 1..Len(messages) : messages'[k] = messages[k]
             /\ Last(messages') =
                   [role |-> "assistant",
                    content |-> IF \E k \in 1..Len(r.text) : r.text[k] = DIRECTIVE
                                THEN LET first == CHOOSE k \in 1..Len(r.text) :
                                                      /\ r.text[k] = DIRECTIVE
                                                      /\ \A j \in 1..(k - 1) :
                                                            r.text[j] # DIRECTIVE
                                     IN  Trim(Slice(r.text, 1, first - 1)
                                              \o Slice(r.text, first + 1, Len(r.text)))
                                ELSE r.text,
                    links |-> Some(r.links),
                    route |-> parseRouteData(r.text, r.links)]
             /\ Last(messages') # FailureMessage]_vars

SuccessApplicationOrderWitness ==
    /\ messages # <<>>
    /\ Last(messages).role = "assistant"
    /\ Last(messages).content = <<"1", ".", " ", "a">>
    /\ Last(messages).route.present
    /\ Len(Last(messages).route.steps) = 1
    /\ mapCenter = [lat |-> 5150, lng |-> -12]
    /\ zoom = 15
    /\ showTraffic = Some(TRUE)
    /\ calls = {}

----------------------------------------------------------------------------
\* C21: an accepted submit appends the user message to the transcript and
\* invokes the model with one entry per message of the transcript as it was
\* just before the submit, in order, with its content and its role
\* (assistant as model), followed by one user entry with the new input.
RequestHistory ==
    [][nSubmits' = nSubmits + 1 =>
          /\ Len(messages') = Len(messages) + 1
          /\ \A k \in 1..Len(messages) : messages'[k] = messages[k]
          /\ Last(messages').role = "user"
          /\ \A c \in calls' \ calls :
                LET contents == contentsOf(c.history, c.prompt)
                IN  /\ Last(messages').content = c.prompt
                    /\ Len(contents) = Len(messages) + 1
                    /\ \A k \in 1..Len(messages) :
                          /\ contents[k].text = messages[k].content
                          /\ contents[k].role =
                                (IF messages[k].role = "assistant" THEN "model" ELSE "user")
                    /\ Last(contents) = [role |-> "user", text |-> c.prompt]]_vars

\* C22: the tool responses are, message by message and call by call in the
\* order received, one response per function call, sent on the session the
\* message came on, with the id and the name of the call and the
\* acknowledgement; every step that receives a toolCall message adds the
\* responses of all its calls.
VoiceToolCallResponse ==
    [][\A i \in Attempts : \A fcs \in VoiceCallLists :
          onmessageToolCall(i, Len(v_responses) + 1, fcs) =>
              /\ Len(v_responses') = Len(v_responses) + Len(fcs)
              /\ \A k \in 1..Len(fcs) :
                    v_responses'[Len(v_responses) + k] =
                        [from |-> i, to |-> i, message |-> Len(v_responses) + 1,
                         id |-> k, name |-> fcs[k].name, result |-> Acknowledgement]]_vars

\* C23: of two chunks of a session that are started and have no
\* interruption after them, the one received later begins no earlier than
\* the end of the one received before it.
PlaybackSchedule ==
    \A c \in Chunks : \A d \in Chunks :
        (/\ c < d
         /\ v_chunks[c].session = v_chunks[d].session
         /\ v_chunks[c].status = "started" /\ ~v_chunks[c].interrupted
         /\ v_chunks[d].status = "started" /\ ~v_chunks[d].interrupted)
        => v_chunks[d].begins >= v_chunks[c].begins + ChunkDuration

\* Two chunks of one session play without an interruption, the second
\* received after the first had ended: it begins at the clock's reading, 2.
PlaybackScheduleWitness ==
    /\ Len(v_chunks) = 2
    /\ v_chunks[1].session = v_chunks[2].session
    /\ v_chunks[1].status = "started" /\ ~v_chunks[1].interrupted
    /\ v_chunks[2].status = "started" /\ ~v_chunks[2].interrupted
    /\ v_chunks[1].begins = 0
    /\ v_chunks[2].begins = 2
    /\ v_att[v_chunks[2].session].nextStartTime = 3

----------------------------------------------------------------------------
\* C24 (viewport fields applied): a dispatched update_map_view call sets
\* zoom to the zoom it gives, the latitude of the center to the latitude it
\* gives and the longitude to the longitude it gives, each whether or not
\* the other fields are given and whatever the number, 0 included; a
\* set_map_layer call sets the active layer to the layer it gives and a
\* toggle_traffic call sets the traffic flag to the flag it gives.
ViewportFieldsApplied ==
    [][(Dispatched /\ e_pc' # "threw") =>
          LET fc == e_calls[e_k]
              a == fc.args
          IN  /\ (fc.name = "update_map_view" /\ a.zoom.some) => zoom' = a.zoom.val
              /\ (fc.name = "update_map_view" /\ a.latitude.some)
                     => mapCenter'.lat = a.latitude.val
              /\ (fc.name = "update_map_view" /\ a.longitude.some)
                     => mapCenter'.lng = a.longitude.val
              /\ (fc.name = "set_map_layer" /\ a.layer.some)
                     => activeLayer' = a.layer.val
              /\ (fc.name = "toggle_traffic" /\ a.enabled.some)
                     => showTraffic' = a.enabled]_vars

----------------------------------------------------------------------------
\* C25 (display directive): when the response text starts with
\* '[ACTION: SHOW_MAP]', the assistant message appended for it does not
\* contain the directive and isChatOpen is false afterwards; when the text
\* has no directive, the message shows the text unchanged and isChatOpen is
\* as it was.
DisplayDirective ==
    [][\A c \in calls : \A r \in Responses :
          \A draws \in [1..Len(r.links) -> RandomDraws] :
              \A readings \in clockReadings(r) :
                  askMapsResolves(c, r, draws, readings) =>
                      LET shown == messages'[Len(messages')]
                      IN  /\ Len(messages') = Len(messages) + 1
                          /\ shown.role = "assistant"
                          /\ (r.text # <<>> /\ r.text[1] = DIRECTIVE)
                                => /\ \A k \in 1..Len(shown.content) :
                                          shown.content[k] # DIRECTIVE
                                   /\ isChatOpen' = FALSE
                          /\ ((\A k \in 1..Len(r.text) : r.text[k] # DIRECTIVE)
                                 /\ shown # FailureMessage)
                                => /\ shown.content = r.text
                                   /\ isChatOpen' = isChatOpen]_vars

----------------------------------------------------------------------------
\* The calls of fcs that run: all of them, or those before the first that
\* throws.
RanOf(fcs) == SubSeq(fcs, 1, ranBefore(fcs))

\* C26 (serialized shared map state): with a turn and a voice session side
\* by side, every step that changes the map view (zoom, center, layer,
\* traffic) or sends tool responses is the completion of one turn or the
\* handling of one voice message, and takes the map view from what it was to
\* what the calls of that one response or message give when applied to it
\* whole, one after the other in their own order; so every reachable map
\* view is the result of applying the calls of both sources one at a time
\* in the order in which the steps were taken, and none shows part of a call.
SerializedMapState ==
    [][(MapView' # MapView \/ v_responses' # v_responses) =>
          \/ /\ \E c \in calls : calls' = calls \ {c}
             /\ v_responses' = v_responses
             /\ \E r \in Responses :
                    MapView' = AppliedInOrder(MapView, RanOf(CallsOf(r)))
          \/ /\ calls' = calls
             /\ \E fcs \in VoiceCallLists :
                    /\ Len(v_responses') = Len(v_responses) + ranBefore(fcs)
                    /\ \A k \in 1..ranBefore(fcs) :
                          v_responses'[Len(v_responses) + k].name = fcs[k].name
                    /\ MapView' = AppliedInOrder(MapView, RanOf(fcs))]_vars

\* A turn whose calls moved the view to (51.50, -0.12) at zoom 15 and turned
\* the traffic on, and then a voice message whose calls set the zoom and
\* turned the traffic off: the center is the turn's, the flag the message's.
SerializedMapStateWitness ==
    /\ Len(v_responses) = 2
    /\ v_responses[1].name = "update_map_view"
    /\ v_responses[2].name = "toggle_traffic"
    /\ Len(messages) = 2
    /\ messages[2] # FailureMessage
    /\ mapCenter = [lat |-> 5150, lng |-> -12]
    /\ zoom = 15
    /\ showTraffic = Some(FALSE)

----------------------------------------------------------------------------
\* C27 (transcript shape): the transcript is a sequence of pairs of a user
\* message and an assistant message, with at most one user message after
\* the last pair: the messages at odd positions are the user's and those at
\* even positions the assistant's, whatever the order of submits, responses,
\* failures and resets.
TranscriptShape ==
    \A k \in 1..Len(messages) :
        messages[k].role = (IF k % 2 = 1 THEN "user" ELSE "assistant")

\* C29 (reset versus in-flight turn): when a turn whose user message a reset
\* has removed completes, by a response or by a failure, while the
\* transcript is still empty, the transcript and the markers stay empty.
ResetDiscardsTurn ==
    [][(messages = <<>> /\ \E c \in calls : calls' = calls \ {c}) =>
          (messages' = <<>> /\ activeMarkers' = <<>>)]_vars

----------------------------------------------------------------------------
\* C28 (voice flag consistency): isVoiceMode is true exactly while a voice
\* session is opening or open: when it is true some attempt awaits the
\* microphone or the connection or has an open session, and when some
\* attempt awaits the microphone or the connection, without a close()
\* queued on it, or has an open session, it is true.
VoiceFlagConsistency ==
    /\ isVoiceMode => \E i \in Attempts : v_att[i].phase \in {"mic", "connecting", "open"}
    /\ (\E i \in Attempts :
            \/ v_att[i].phase \in {"mic", "open"}
            \/ v_att[i].phase = "connecting" /\ ~v_att[i].closeQueued)
          => isVoiceMode

----------------------------------------------------------------------------
\* C30 (map-view domain): zoom is a number from 1 to 18 and the active layer
\* is one of standard, satellite, terrain and transit, after any tool calls
\* of the voice session, presses of the zoom buttons, choices in the layer
\* menu and switches of the driving mode.
MapViewDomain ==
    /\ zoom \in 1..18
    /\ activeLayer \in {"standard", "satellite", "terrain", "transit"}
====
